---- MODULE Spec2Model ----
(***************************************************************************)
(* v3math: a 3D vector library over C float[3] buffers (v3math.c).         *)
(*                                                                         *)
(* The state is the caller's memory (a few float[3] buffers), the stderr   *)
(* lines and the return value of the call in progress, and the caller's    *)
(* position (before or after a call).  There is one action per API         *)
(* function.  Each function is an operator from the memory and its pointer *)
(* arguments to the memory, return value and diagnostics it leaves; reads  *)
(* and writes are done one float at a time, in the order of the source, so *)
(* that an aliased destination is overwritten exactly when the C code      *)
(* overwrites it.                                                          *)
(*                                                                         *)
(* float is modelled as a binary floating-point format of the IEEE 754     *)
(* shape (round to nearest even, gradual underflow, overflow to infinity,  *)
(* one NaN) with MantBits bits of precision and largest exponent EMax in   *)
(* place of 24 and 127.  A finite float is the integer count of its        *)
(* smallest subnormals; zero is unsigned (C compares -0.0f == 0.0f).       *)
(* The build (gcc -std=c11 -O2, x86-64) evaluates float expressions in     *)
(* float, one rounding per operation, without contraction.                 *)
(***************************************************************************)
EXTENDS Integers, Sequences, FiniteSets, TLC

VARIABLES mem, pre, call, ret, err, pc

vars == <<mem, pre, call, ret, err, pc>>

----------------------------------------------------------------------------
(* The float format *)

MantBits == 3
EMax == 4
NBuf == 3

RECURSIVE Pow2(_)
Pow2(n) == IF n = 0 THEN 1 ELSE 2 * Pow2(n - 1)

\* 1.0f, in units of the smallest subnormal 2^(1 - EMax - (MantBits - 1))
Unit == Pow2(EMax + MantBits - 2)
\* FLT_MAX = (2^MantBits - 1) * 2^(EMax - (MantBits - 1))
MaxK == (Pow2(MantBits) - 1) * Pow2(2 * EMax - 1)
INF == MaxK + 1
NAN == MaxK + 2
\* what a call leaves in `ret` when the function is void
VOID == MaxK + 3
\* an indeterminate float (an uninitialized automatic array)
UNINIT == MaxK + 4
\* acosf of the finite float x in [-1, 1] is kept symbolic: ACOS + x
ACOS == 3 * MaxK + 10

\* the float of the small integer n, and of n smallest subnormals
F(n) == n * Unit
Sub(n) == n

isnan(x) == x = NAN
isfinite(x) == x # NAN /\ x # INF /\ x # -INF

Abs(n) == IF n < 0 THEN -n ELSE n
Sgn(n) == IF n < 0 THEN -1 ELSE 1

\* the spacing of the floats around a/d units: the least power of two s
\* with a/d < 2^MantBits * s
RECURSIVE Spacing(_, _, _)
Spacing(a, d, s) ==
  IF a < d * Pow2(MantBits) * s THEN s ELSE Spacing(a, d, 2 * s)

\* q or q + 1: q when the remainder r2/2 is below half the spacing u/2,
\* q + 1 above it, the even one of the two on a tie
TiesEven(q, r2, u) ==
  IF r2 > u \/ (r2 = u /\ q % 2 = 1) THEN q + 1 ELSE q

\* a finite result beyond FLT_MAX overflows to infinity
Overflow(k) == IF k > MaxK THEN INF ELSE k

\* a/d units rounded to a multiple of the spacing s
RoundAt(a, d, s) ==
  Overflow(TiesEven(a \div (d * s), 2 * (a % (d * s)), d * s) * s)

\* a/d units (a >= 0, d > 0) rounded to nearest, ties to even; overflow to INF
RoundMag(a, d) == RoundAt(a, d, Spacing(a, d, 1))

Round(n, d) == Sgn(n) * RoundMag(Abs(n), d)

RECURSIVE ISqrtIn(_, _, _)
ISqrtIn(n, lo, hi) ==
  IF lo = hi THEN lo
  ELSE LET mid == (lo + hi + 1) \div 2
       IN  IF mid * mid <= n THEN ISqrtIn(n, mid, hi) ELSE ISqrtIn(n, lo, mid - 1)

\* floor(sqrt(n))
ISqrt(n) == ISqrtIn(n, 0, 2 * Unit * Pow2(EMax))

fneg(x) == IF isnan(x) THEN NAN ELSE -x

fabsf(x) == IF isnan(x) THEN NAN ELSE Abs(x)

fadd(x, y) ==
  IF isnan(x) \/ isnan(y) THEN NAN
  ELSE IF ~isfinite(x) THEN (IF y = -x THEN NAN ELSE x)
  ELSE IF ~isfinite(y) THEN y
  ELSE Round(x + y, 1)

fsub(x, y) == fadd(x, fneg(y))

fmul(x, y) ==
  IF isnan(x) \/ isnan(y) THEN NAN
  ELSE IF ~isfinite(x) \/ ~isfinite(y)
       THEN (IF x = 0 \/ y = 0 THEN NAN ELSE Sgn(x) * Sgn(y) * INF)
  ELSE Round(x * y, Unit)

fdiv(x, y) ==
  IF isnan(x) \/ isnan(y) THEN NAN
  ELSE IF ~isfinite(x) THEN (IF ~isfinite(y) THEN NAN ELSE Sgn(x) * Sgn(y) * INF)
  ELSE IF ~isfinite(y) THEN 0
  ELSE IF y = 0 THEN (IF x = 0 THEN NAN ELSE Sgn(x) * INF)
  ELSE Sgn(x) * Sgn(y) * RoundMag(Abs(x) * Unit, Abs(y))

\* sqrt(n) units rounded to a multiple of the spacing s, f = floor(sqrt(n)):
\* sqrt(n) against the midpoint (q + 1/2) * s, q = f \div s
SqrtAt(n, f, s) ==
  TiesEven(f \div s, 4 * n, (2 * (f \div s) + 1) * (2 * (f \div s) + 1) * s * s) * s

SqrtMag(n, f) == SqrtAt(n, f, Spacing(f, 1, 1))

\* sqrtf, correctly rounded: the root of x/Unit is sqrt(x * Unit) units
sqrtf(x) ==
  IF isnan(x) \/ x < 0 THEN NAN
  ELSE IF x = INF THEN INF
  ELSE SqrtMag(x * Unit, ISqrt(x * Unit))

\* acosf (libm): NaN outside [-1, 1] and on NaN
acosf(x) == IF isnan(x) \/ x > F(1) \/ x < -F(1) THEN NAN ELSE ACOS + x

\* the C comparisons, false when an operand is NaN
flt(x, y) == ~isnan(x) /\ ~isnan(y) /\ x < y
fgt(x, y) == ~isnan(x) /\ ~isnan(y) /\ x > y
fle(x, y) == ~isnan(x) /\ ~isnan(y) /\ x <= y
feq(x, y) == ~isnan(x) /\ ~isnan(y) /\ x = y

----------------------------------------------------------------------------
(* Memory: float[3] buffers behind pointers *)

NULL == 0
Bufs == 1..NBuf
Ptrs == {NULL} \cup Bufs
\* the address of v3_reflect's automatic array nn[3]
NN == NBuf + 1
\* the place of a parameter the function does not have, in `call`
NOARG == NULL - 1

\* p[i] and p[i] = v, one float at a time
Load(m, p, i) == m[p][i + 1]
Store(m, p, i, v) == [m EXCEPT ![p][i + 1] = v]

\* what a call leaves: the memory, the value returned, the lines on stderr
R(m, r, e) == [mem |-> m, ret |-> r, err |-> e]

\* a v3_error that prints nothing
error_silent(msg) == <<>>

v3_error(msg) == <<msg>>

v3_valid_ptr3(p) == p # NULL

clampf(x, lo, hi) ==
  IF flt(x, lo) THEN lo
  ELSE IF fgt(x, hi) THEN hi
  ELSE x

v3_from_points(m, dst, a, b) ==
  IF ~v3_valid_ptr3(dst) \/ ~v3_valid_ptr3(a) \/ ~v3_valid_ptr3(b)
  THEN R(m, VOID, v3_error("v3_from_points received NULL pointer"))
  ELSE LET ax == Load(m, a, 0)  ay == Load(m, a, 1)  az == Load(m, a, 2)
           bx == Load(m, b, 0)  by == Load(m, b, 1)  bz == Load(m, b, 2)
           m1 == Store(m, dst, 0, fsub(bx, ax))
           m2 == Store(m1, dst, 1, fsub(by, ay))
           m3 == Store(m2, dst, 2, fsub(bz, az))
       IN  R(m3, VOID, <<>>)

v3_add(m, dst, a, b) ==
  IF ~v3_valid_ptr3(dst) \/ ~v3_valid_ptr3(a) \/ ~v3_valid_ptr3(b)
  THEN R(m, VOID, v3_error("v3_add received NULL pointer"))
  ELSE LET ax == Load(m, a, 0)  ay == Load(m, a, 1)  az == Load(m, a, 2)
           bx == Load(m, b, 0)  by == Load(m, b, 1)  bz == Load(m, b, 2)
           m1 == Store(m, dst, 0, fadd(ax, bx))
           m2 == Store(m1, dst, 1, fadd(ay, by))
           m3 == Store(m2, dst, 2, fadd(az, bz))
       IN  R(m3, VOID, <<>>)

v3_subtract(m, dst, a, b) ==
  IF ~v3_valid_ptr3(dst) \/ ~v3_valid_ptr3(a) \/ ~v3_valid_ptr3(b)
  THEN R(m, VOID, v3_error("v3_subtract received NULL pointer"))
  ELSE LET ax == Load(m, a, 0)  ay == Load(m, a, 1)  az == Load(m, a, 2)
           bx == Load(m, b, 0)  by == Load(m, b, 1)  bz == Load(m, b, 2)
           m1 == Store(m, dst, 0, fsub(ax, bx))
           m2 == Store(m1, dst, 1, fsub(ay, by))
           m3 == Store(m2, dst, 2, fsub(az, bz))
       IN  R(m3, VOID, <<>>)

v3_dot_product(m, a, b) ==
  IF ~v3_valid_ptr3(a) \/ ~v3_valid_ptr3(b)
  THEN R(m, NAN, v3_error("v3_dot_product received NULL pointer"))
  ELSE R(m,
         fadd(fadd(fmul(Load(m, a, 0), Load(m, b, 0)),
                   fmul(Load(m, a, 1), Load(m, b, 1))),
              fmul(Load(m, a, 2), Load(m, b, 2))),
         <<>>)

\* v3_cross_product writing dst before it has read all of a and b
cross_product_in_place(m, dst, a, b) ==
  IF ~v3_valid_ptr3(dst) \/ ~v3_valid_ptr3(a) \/ ~v3_valid_ptr3(b)
  THEN R(m, VOID, v3_error("v3_cross_product received NULL pointer"))
  ELSE LET m1 == Store(m, dst, 0,
                       fsub(fmul(Load(m, a, 1), Load(m, b, 2)),
                            fmul(Load(m, a, 2), Load(m, b, 1))))
           m2 == Store(m1, dst, 1,
                       fsub(fmul(Load(m1, a, 2), Load(m1, b, 0)),
                            fmul(Load(m1, a, 0), Load(m1, b, 2))))
           m3 == Store(m2, dst, 2,
                       fsub(fmul(Load(m2, a, 0), Load(m2, b, 1)),
                            fmul(Load(m2, a, 1), Load(m2, b, 0))))
       IN  R(m3, VOID, <<>>)

\* the left-handed product: every component with its two terms exchanged
cross_product_left_handed(m, dst, a, b) ==
  IF ~v3_valid_ptr3(dst) \/ ~v3_valid_ptr3(a) \/ ~v3_valid_ptr3(b)
  THEN R(m, VOID, v3_error("v3_cross_product received NULL pointer"))
  ELSE LET ax == Load(m, a, 0)  ay == Load(m, a, 1)  az == Load(m, a, 2)
           bx == Load(m, b, 0)  by == Load(m, b, 1)  bz == Load(m, b, 2)
           m1 == Store(m, dst, 0, fsub(fmul(az, by), fmul(ay, bz)))
           m2 == Store(m1, dst, 1, fsub(fmul(ax, bz), fmul(az, bx)))
           m3 == Store(m2, dst, 2, fsub(fmul(ay, bx), fmul(ax, by)))
       IN  R(m3, VOID, <<>>)

v3_cross_product(m, dst, a, b) ==
  IF ~v3_valid_ptr3(dst) \/ ~v3_valid_ptr3(a) \/ ~v3_valid_ptr3(b)
  THEN R(m, VOID, v3_error("v3_cross_product received NULL pointer"))
  ELSE LET ax == Load(m, a, 0)  ay == Load(m, a, 1)  az == Load(m, a, 2)
           bx == Load(m, b, 0)  by == Load(m, b, 1)  bz == Load(m, b, 2)
           m1 == Store(m, dst, 0, fsub(fmul(ay, bz), fmul(az, by)))
           m2 == Store(m1, dst, 1, fsub(fmul(az, bx), fmul(ax, bz)))
           m3 == Store(m2, dst, 2, fsub(fmul(ax, by), fmul(ay, bx)))
       IN  R(m3, VOID, <<>>)

v3_scale(m, dst, s) ==
  IF ~v3_valid_ptr3(dst)
  THEN R(m, VOID, v3_error("v3_scale received NULL pointer"))
  ELSE LET m1 == Store(m, dst, 0, fmul(Load(m, dst, 0), s))
           m2 == Store(m1, dst, 1, fmul(Load(m1, dst, 1), s))
           m3 == Store(m2, dst, 2, fmul(Load(m2, dst, 2), s))
       IN  R(m3, VOID, <<>>)

v3_length(m, a) ==
  IF ~v3_valid_ptr3(a)
  THEN R(m, NAN, v3_error("v3_length received NULL pointer"))
  ELSE LET x == Load(m, a, 0)  y == Load(m, a, 1)  z == Load(m, a, 2)
       IN  R(m, sqrtf(fadd(fadd(fmul(x, x), fmul(y, y)), fmul(z, z))), <<>>)

\* v3_normalize handing back the original vector when it cannot normalize
normalize_keeps_original(m, dst, a) ==
  IF ~v3_valid_ptr3(dst) \/ ~v3_valid_ptr3(a)
  THEN R(m, VOID, v3_error("v3_normalize received NULL pointer"))
  ELSE LET x == Load(m, a, 0)  y == Load(m, a, 1)  z == Load(m, a, 2)
           len == sqrtf(fadd(fadd(fmul(x, x), fmul(y, y)), fmul(z, z)))
       IN  IF feq(len, 0) \/ ~isfinite(len)
           THEN R(Store(Store(Store(m, dst, 0, x), dst, 1, y), dst, 2, z), VOID,
                  v3_error("v3_normalize cannot normalize zero-length or non-finite vector"))
           ELSE LET inv == fdiv(F(1), len)
                IN  R(Store(Store(Store(m, dst, 0, fmul(x, inv)), dst, 1, fmul(y, inv)),
                            dst, 2, fmul(z, inv)),
                      VOID, <<>>)

v3_normalize(m, dst, a) ==
  IF ~v3_valid_ptr3(dst) \/ ~v3_valid_ptr3(a)
  THEN R(m, VOID, v3_error("v3_normalize received NULL pointer"))
  ELSE LET x == Load(m, a, 0)  y == Load(m, a, 1)  z == Load(m, a, 2)
           len == sqrtf(fadd(fadd(fmul(x, x), fmul(y, y)), fmul(z, z)))
       IN  IF feq(len, 0) \/ ~isfinite(len)
           THEN LET m1 == Store(m, dst, 0, 0)
                    m2 == Store(m1, dst, 1, 0)
                    m3 == Store(m2, dst, 2, 0)
                IN  R(m3, VOID,
                      v3_error("v3_normalize cannot normalize zero-length or non-finite vector"))
           ELSE LET inv == fdiv(F(1), len)
                    m1 == Store(m, dst, 0, fmul(x, inv))
                    m2 == Store(m1, dst, 1, fmul(y, inv))
                    m3 == Store(m2, dst, 2, fmul(z, inv))
                IN  R(m3, VOID, <<>>)

v3_angle_quick(m, a, b) ==
  IF ~v3_valid_ptr3(a) \/ ~v3_valid_ptr3(b)
  THEN R(m, NAN, v3_error("v3_angle_quick received NULL pointer"))
  ELSE LET ra == v3_length(m, a)
           rb == v3_length(ra.mem, b)
           la == ra.ret
           lb == rb.ret
       IN  IF feq(la, 0) \/ feq(lb, 0) \/ ~isfinite(la) \/ ~isfinite(lb)
           THEN R(rb.mem, NAN,
                  ra.err \o rb.err \o
                  v3_error("v3_angle_quick undefined for zero-length or non-finite vectors"))
           ELSE LET rd == v3_dot_product(rb.mem, a, b)
                    cosv == fdiv(rd.ret, fmul(la, lb))
                IN  R(rd.mem, clampf(cosv, -F(1), F(1)), ra.err \o rb.err \o rd.err)

\* v3_angle taking a failed v3_angle_quick for a cosine of 0
angle_of_placeholder(m, a, b) ==
  R(m,
    IF ~isfinite(v3_angle_quick(m, a, b).ret) THEN acosf(0)
    ELSE acosf(v3_angle_quick(m, a, b).ret),
    v3_angle_quick(m, a, b).err)

v3_angle(m, a, b) ==
  LET rq == v3_angle_quick(m, a, b)
      cosv == rq.ret
  IN  IF ~isfinite(cosv) THEN R(rq.mem, NAN, rq.err)
      ELSE R(rq.mem, acosf(cosv), rq.err)

\* float nn[3]; an automatic array, indeterminate until written
StackNN(m) ==
  [p \in Bufs \cup {NN} |-> IF p = NN THEN <<UNINIT, UNINIT, UNINIT>> ELSE m[p]]

\* returning ends the lifetime of nn
Leave(m) == [p \in Bufs |-> m[p]]

\* dst[i] = v[i];
reflect_copy(m, dst, v, i) == Store(m, dst, i, Load(m, v, i))

\* a fallback that hands back normalize's zero vector nn instead of v
reflect_fallback_zero(m, dst, v) ==
  reflect_copy(reflect_copy(reflect_copy(m, dst, NN, 0), dst, NN, 1), dst, NN, 2)

\* the fallback: dst[0] = v[0]; dst[1] = v[1]; dst[2] = v[2]; return;
reflect_fallback(m, dst, v) ==
  reflect_copy(reflect_copy(reflect_copy(m, dst, v, 0), dst, v, 1), dst, v, 2)

\* dst[i] = vi - 2.0f * dotvn * nn[i];
reflect_store(m, dst, i, vi, dotvn) ==
  Store(m, dst, i, fsub(vi, fmul(fmul(F(2), dotvn), Load(m, NN, i))))

\* r = v - 2*dot(v,n)*n, from the snapshot vx, vy, vz
reflect_write(m, dst, vx, vy, vz, dotvn) ==
  reflect_store(reflect_store(reflect_store(m, dst, 0, vx, dotvn),
                              dst, 1, vy, dotvn),
                dst, 2, vz, dotvn)

\* float dotvn = vx*nn[0] + vy*nn[1] + vz*nn[2];
reflect_dot(m, dst, vx, vy, vz) ==
  reflect_write(m, dst, vx, vy, vz,
                fadd(fadd(fmul(vx, Load(m, NN, 0)), fmul(vy, Load(m, NN, 1))),
                     fmul(vz, Load(m, NN, 2))))

\* after nn_len = v3_length(nn) (rl), nn written by v3_normalize(nn, n) (rn)
reflect_measured(dst, v, rn, rl) ==
  IF feq(rl.ret, 0) \/ ~isfinite(rl.ret)
  THEN R(Leave(reflect_fallback(rl.mem, dst, v)), VOID,
         rn.err \o rl.err \o
         v3_error("v3_reflect undefined because normal vector is zero-length"))
  ELSE R(Leave(reflect_dot(rl.mem, dst,
                           Load(rl.mem, v, 0), Load(rl.mem, v, 1), Load(rl.mem, v, 2))),
         VOID, rn.err \o rl.err)

reflect_normalized(dst, v, rn) == reflect_measured(dst, v, rn, v3_length(rn.mem, NN))

\* v3_reflect normalizing n where it lies, then copying it to nn
reflect_normalizing_in_place(m, dst, v, n) ==
  IF ~v3_valid_ptr3(dst) \/ ~v3_valid_ptr3(v) \/ ~v3_valid_ptr3(n)
  THEN R(m, VOID, v3_error("v3_reflect received NULL pointer"))
  ELSE reflect_normalized(dst, v,
         R([v3_normalize(StackNN(m), n, n).mem EXCEPT
              ![NN] = v3_normalize(StackNN(m), n, n).mem[n]],
           VOID, v3_normalize(StackNN(m), n, n).err))

v3_reflect(m, dst, v, n) ==
  IF ~v3_valid_ptr3(dst) \/ ~v3_valid_ptr3(v) \/ ~v3_valid_ptr3(n)
  THEN R(m, VOID, v3_error("v3_reflect received NULL pointer"))
  ELSE reflect_normalized(dst, v, v3_normalize(StackNN(m), NN, n))

\* v3_equals comparing against the tolerance as given, sign and all
equals_signed_tolerance(m, a, b, tolerance) ==
  IF ~v3_valid_ptr3(a) \/ ~v3_valid_ptr3(b) THEN R(m, 0, <<>>)
  ELSE R(m,
         IF /\ fle(fabsf(fsub(Load(m, a, 0), Load(m, b, 0))), tolerance)
            /\ fle(fabsf(fsub(Load(m, a, 1), Load(m, b, 1))), tolerance)
            /\ fle(fabsf(fsub(Load(m, a, 2), Load(m, b, 2))), tolerance)
         THEN 1 ELSE 0,
         <<>>)

\* bool as C converts it: 1 and 0
v3_equals(m, a, b, tolerance) ==
  IF ~v3_valid_ptr3(a) \/ ~v3_valid_ptr3(b) THEN R(m, 0, <<>>)
  ELSE LET tol == IF flt(tolerance, 0) THEN fneg(tolerance) ELSE tolerance
       IN  R(m,
             IF /\ fle(fabsf(fsub(Load(m, a, 0), Load(m, b, 0))), tol)
                /\ fle(fabsf(fsub(Load(m, a, 1), Load(m, b, 1))), tol)
                /\ fle(fabsf(fsub(Load(m, a, 2), Load(m, b, 2))), tol)
             THEN 1 ELSE 0,
             <<>>)

----------------------------------------------------------------------------
(* The caller: buffers it has filled, then one call into the library *)

\* the vectors a buffer may hold before the call
InitVecs ==
  { <<0, 0, 0>>,
    <<F(1), 0, 0>>, <<0, F(1), 0>>,
    <<F(1), F(2), 0>>, <<F(1), -F(1), F(2)>>, <<F(3), 0, F(4)>>,
    <<Sub(4), 0, 0>>, <<0, -Sub(6), Sub(6)>>,
    <<MaxK, 0, 0>>,
    <<INF, 0, 0>>, <<NAN, F(1), 0>> }

\* the scale factors and tolerances a caller passes
Scalars == {0, F(2), -F(1) \div 2, INF, NAN}

Init ==
  /\ mem \in [Bufs -> InitVecs]
  /\ pre = mem
  /\ call = [op |-> "none", dst |-> NOARG, a |-> NOARG, b |-> NOARG, s |-> NOARG]
  /\ ret = VOID
  /\ err = <<>>
  /\ pc = "ready"

\* the call op(dst, a, b, s) runs to its return and leaves r
Do(op, dst, a, b, s, r) ==
  /\ pc' = "done"
  /\ pre' = mem
  /\ call' = [op |-> op, dst |-> dst, a |-> a, b |-> b, s |-> s]
  /\ mem' = r.mem
  /\ ret' = r.ret
  /\ err' = r.err

Call_from_points ==
  \E dst \in Ptrs, a \in Ptrs, b \in Ptrs :
    /\ pc = "ready"
    /\ Do("v3_from_points", dst, a, b, NOARG, v3_from_points(mem, dst, a, b))

Call_add ==
  \E dst \in Ptrs, a \in Ptrs, b \in Ptrs :
    /\ pc = "ready"
    /\ Do("v3_add", dst, a, b, NOARG, v3_add(mem, dst, a, b))

Call_subtract ==
  \E dst \in Ptrs, a \in Ptrs, b \in Ptrs :
    /\ pc = "ready"
    /\ Do("v3_subtract", dst, a, b, NOARG, v3_subtract(mem, dst, a, b))

Call_dot_product ==
  \E a \in Ptrs, b \in Ptrs :
    /\ pc = "ready"
    /\ Do("v3_dot_product", NOARG, a, b, NOARG, v3_dot_product(mem, a, b))

Call_cross_product ==
  \E dst \in Ptrs, a \in Ptrs, b \in Ptrs :
    /\ pc = "ready"
    /\ Do("v3_cross_product", dst, a, b, NOARG, v3_cross_product(mem, dst, a, b))

Call_scale ==
  \E dst \in Ptrs, s \in Scalars :
    /\ pc = "ready"
    /\ Do("v3_scale", dst, NOARG, NOARG, s, v3_scale(mem, dst, s))

Call_length ==
  \E a \in Ptrs :
    /\ pc = "ready"
    /\ Do("v3_length", NOARG, a, NOARG, NOARG, v3_length(mem, a))

Call_normalize ==
  \E dst \in Ptrs, a \in Ptrs :
    /\ pc = "ready"
    /\ Do("v3_normalize", dst, a, NOARG, NOARG, v3_normalize(mem, dst, a))

Call_angle_quick ==
  \E a \in Ptrs, b \in Ptrs :
    /\ pc = "ready"
    /\ Do("v3_angle_quick", NOARG, a, b, NOARG, v3_angle_quick(mem, a, b))

Call_angle ==
  \E a \in Ptrs, b \in Ptrs :
    /\ pc = "ready"
    /\ Do("v3_angle", NOARG, a, b, NOARG, v3_angle(mem, a, b))

\* v3_reflect(dst, v, n): v is kept in call.a, n in call.b
Call_reflect ==
  \E dst \in Ptrs, v \in Ptrs, n \in Ptrs :
    /\ pc = "ready"
    /\ Do("v3_reflect", dst, v, n, NOARG, v3_reflect(mem, dst, v, n))

Call_equals ==
  \E a \in Ptrs, b \in Ptrs, tolerance \in Scalars :
    /\ pc = "ready"
    /\ Do("v3_equals", NOARG, a, b, tolerance, v3_equals(mem, a, b, tolerance))

Next ==
  \/ Call_from_points
  \/ Call_add
  \/ Call_subtract
  \/ Call_dot_product
  \/ Call_cross_product
  \/ Call_scale
  \/ Call_length
  \/ Call_normalize
  \/ Call_angle_quick
  \/ Call_angle
  \/ Call_reflect
  \/ Call_equals

Spec == Init /\ [][Next]_vars

----------------------------------------------------------------------------
(* What the claims speak of *)

Done(op) == pc = "done" /\ call.op = op

\* the pointer arguments of the call are all there
Valid3 == call.dst # NULL /\ call.a # NULL /\ call.b # NULL
Valid2 == call.a # NULL /\ call.b # NULL

\* a memory in which buffer 2 holds va, buffer 3 holds vb and buffer 1, the
\* destination of a call on separate buffers, holds nothing yet
Separate(va, vb) ==
  [p \in Bufs |-> IF p = 2 THEN va
                  ELSE IF p = 3 THEN vb
                  ELSE <<UNINIT, UNINIT, UNINIT>>]

Exec3(op, m, dst, a, b) ==
  CASE op = "v3_from_points" -> v3_from_points(m, dst, a, b)
    [] op = "v3_add" -> v3_add(m, dst, a, b)
    [] op = "v3_subtract" -> v3_subtract(m, dst, a, b)
    [] op = "v3_cross_product" -> v3_cross_product(m, dst, a, b)
    [] op = "v3_reflect" -> v3_reflect(m, dst, a, b)

Ternary == {"v3_from_points", "v3_add", "v3_subtract", "v3_cross_product", "v3_reflect"}

\* the length v3_length computes is zero or not finite
BadLength(v) ==
  LET len == v3_length(Separate(v, v), 2).ret
  IN  feq(len, 0) \/ ~isfinite(len)

Zero3 == <<0, 0, 0>>

\* C1: overlap safety.  After from_points, add, subtract, cross_product or
\* reflect with dst aliasing a, b or both, and after normalize with dst
\* aliasing a, dst holds what the same call on three separate buffers with the
\* same source values leaves in its dst, fallback paths included.
C1_OverlapSafe ==
  /\ (pc = "done" /\ call.op \in Ternary /\ Valid3
        /\ (call.dst = call.a \/ call.dst = call.b))
     => mem[call.dst] =
          Exec3(call.op, Separate(pre[call.a], pre[call.b]), 1, 2, 3).mem[1]
  /\ (Done("v3_normalize") /\ call.dst # NULL /\ call.dst = call.a)
     => mem[call.dst] =
          v3_normalize(Separate(pre[call.a], pre[call.a]), 1, 2).mem[1]

\* cross_product(a, a, y) with a = (1,0,0), y = (0,1,0) has left (0,0,1) in a
C1_Witness ==
  /\ Done("v3_cross_product") /\ Valid3
  /\ call.dst = call.a /\ call.a # call.b
  /\ pre[call.a] = <<F(1), 0, 0>> /\ pre[call.b] = <<0, F(1), 0>>
  /\ mem[call.dst] = <<0, 0, F(1)>>

\* d is x/len up to the two roundings of x * (1.0f / len): a relative error of
\* 2^-MantBits each, or half a smallest subnormal where the product is subnormal
Quotient(d, x, len) ==
  /\ isfinite(d)
  /\ Abs(d * len - x * Unit) * Pow2(2 * MantBits)
       <= Abs(x) * Unit * (Pow2(MantBits + 1) + 1) + len * Pow2(2 * MantBits - 1)
  /\ (x = 0 => d = 0)
  /\ d * x >= 0

dot3(v, w) == fadd(fadd(fmul(v[1], w[1]), fmul(v[2], w[2])), fmul(v[3], w[3]))

\* v - 2 (v . nh) nh in float arithmetic
Reflection(v, nh) ==
  [i \in 1..3 |-> fsub(v[i], fmul(fmul(F(2), dot3(v, nh)), nh[i]))]

QuickFails ==
  \/ ~Valid2
  \/ BadLength(pre[call.a])
  \/ BadLength(pre[call.b])

\* C4: after v3_angle(a, b): if v3_angle_quick(a, b) fails, v3_angle has
\* returned NaN and the failure is on stderr; if it succeeds, v3_angle has
\* returned acosf of the cosine v3_angle_quick returns, which is an angle and
\* never NaN.
C4_AnglePropagates ==
  Done("v3_angle")
  => LET quick == v3_angle_quick(pre, call.a, call.b)
     IN  IF QuickFails
         THEN isnan(quick.ret) /\ isnan(ret) /\ err = quick.err /\ err # <<>>
         ELSE /\ isfinite(quick.ret)
              /\ ret = acosf(quick.ret)
              /\ ~isnan(ret)
              /\ err = <<>>

\* the angle between a vector of infinite length and a unit vector: NaN
C4_Witness ==
  /\ Done("v3_angle") /\ Valid2
  /\ pre[call.a] = <<INF, 0, 0>>
  /\ pre[call.b] = <<F(1), 0, 0>>
  /\ isnan(ret)

FiniteNonzero(v) == (\A i \in 1..3 : isfinite(v[i])) /\ v # Zero3

\* C5: after v3_angle_quick(a, b) on vectors whose components are finite and
\* not all zero, the value returned lies in [-1, 1], is not the failure value,
\* and no failure is signalled.
C5_AngleBounds ==
  (Done("v3_angle_quick") /\ Valid2
     /\ FiniteNonzero(pre[call.a]) /\ FiniteNonzero(pre[call.b]))
  => /\ ~isnan(ret)
     /\ -F(1) <= ret /\ ret <= F(1)
     /\ err = <<>>

\* the call took a fallback for a mathematically undefined result
Undefined ==
  \/ Done("v3_normalize") /\ call.dst # NULL /\ call.a # NULL
       /\ BadLength(pre[call.a])
  \/ Done("v3_reflect") /\ Valid3 /\ BadLength(pre[call.b])
  \/ (Done("v3_angle_quick") \/ Done("v3_angle")) /\ Valid2
       /\ (BadLength(pre[call.a]) \/ BadLength(pre[call.b]))

\* the call computed its result
Succeeded ==
  \/ Done("v3_normalize") /\ call.dst # NULL /\ call.a # NULL
       /\ ~BadLength(pre[call.a])
  \/ Done("v3_reflect") /\ Valid3 /\ ~BadLength(pre[call.b])
  \/ (Done("v3_angle_quick") \/ Done("v3_angle")) /\ Valid2
       /\ ~BadLength(pre[call.a]) /\ ~BadLength(pre[call.b])

\* C6 as claimed: a call that took a fallback is reported, and what it
\* returns or leaves in dst is not what a successful call of the same
\* operation with the same non-failing argument returns or leaves; for
\* v3_reflect, the v left in dst is the result of no successful
\* v3_reflect(dst, v, n2).
C6_DistinguishableByResult ==
  /\ Undefined => err # <<>>
  /\ (Undefined /\ (Done("v3_angle_quick") \/ Done("v3_angle"))) => isnan(ret)
  /\ (Succeeded /\ (Done("v3_angle_quick") \/ Done("v3_angle"))) => ~isnan(ret)
  /\ (Undefined /\ Done("v3_normalize")) => mem[call.dst] = Zero3
  /\ (Succeeded /\ Done("v3_normalize")) => mem[call.dst] # Zero3
  /\ (Undefined /\ Done("v3_reflect"))
     => \A n2 \in InitVecs :
          ~BadLength(n2)
          => v3_reflect(Separate(pre[call.a], n2), 1, 2, 3).mem[1] # mem[call.dst]

\* C6: a call that took a fallback has written a diagnostic to stderr and a
\* call that computed its result has written none; the NaN of
\* v3_angle_quick and v3_angle and the zero vector of v3_normalize are
\* returned by no successful call.  (The v that v3_reflect leaves is also the
\* result of reflecting v about a normal perpendicular to it: there only
\* stderr tells the fallback.)
C6_Reported ==
  /\ Undefined => err # <<>>
  /\ Succeeded => err = <<>>
  /\ (Undefined /\ (Done("v3_angle_quick") \/ Done("v3_angle"))) => isnan(ret)
  /\ (Succeeded /\ (Done("v3_angle_quick") \/ Done("v3_angle"))) => ~isnan(ret)
  /\ (Undefined /\ Done("v3_normalize")) => mem[call.dst] = Zero3
  /\ (Succeeded /\ Done("v3_normalize")) => mem[call.dst] # Zero3

\* v3_reflect about the zero vector: two lines on stderr, v3_normalize's and
\* its own
C6_Witness ==
  /\ Undefined /\ Done("v3_reflect")
  /\ pre[call.b] = Zero3
  /\ Len(err) = 2

\* C7: v3_equals(a, b, tol) with both pointers there is true exactly when
\* fabsf(a[i] - b[i]) <= fabsf(tol) for i = 0, 1, 2 (float subtraction and C
\* comparison); it returns the same for -tol and with a and b exchanged, and
\* it changes no buffer.
C7_Equals ==
  (Done("v3_equals") /\ Valid2)
  => LET a == pre[call.a]
         b == pre[call.b]
     IN  /\ ret \in {0, 1}
         /\ ret = 1 <=> \A i \in 1..3 : fle(fabsf(fsub(a[i], b[i])), fabsf(call.s))
         /\ ret = v3_equals(pre, call.a, call.b, fneg(call.s)).ret
         /\ ret = v3_equals(pre, call.b, call.a, call.s).ret
         /\ mem = pre

\* two different vectors, equal under a negative tolerance
C7_Witness ==
  /\ Done("v3_equals") /\ Valid2
  /\ pre[call.a] # pre[call.b]
  /\ flt(call.s, 0)
  /\ ret = 1

Cross(a, b) ==
  << fsub(fmul(a[2], b[3]), fmul(a[3], b[2])),
     fsub(fmul(a[3], b[1]), fmul(a[1], b[3])),
     fsub(fmul(a[1], b[2]), fmul(a[2], b[1])) >>

Neg3(v) == [i \in 1..3 |-> fneg(v[i])]

\* C8: v3_cross_product(dst, a, b) with all pointers there leaves in dst
\* (a.y b.z - a.z b.y, a.z b.x - a.x b.z, a.x b.y - a.y b.x); x cross y is z;
\* and the product of b and a is this one negated component by component.
C8_Cross ==
  (Done("v3_cross_product") /\ Valid3)
  => LET a == pre[call.a]
         b == pre[call.b]
     IN  /\ mem[call.dst] = Cross(a, b)
         /\ (a = <<F(1), 0, 0>> /\ b = <<0, F(1), 0>>)
            => mem[call.dst] = <<0, 0, F(1)>>
         /\ v3_cross_product(Separate(b, a), 1, 2, 3).mem[1] = Neg3(mem[call.dst])

\* a product with all three components at work, none of them zero
C8_Witness ==
  /\ Done("v3_cross_product") /\ Valid3
  /\ call.dst # call.a /\ call.dst # call.b
  /\ \A i \in 1..3 : isfinite(mem[call.dst][i]) /\ mem[call.dst][i] # 0

Exec(c, m) ==
  CASE c.op \in Ternary -> Exec3(c.op, m, c.dst, c.a, c.b)
    [] c.op = "v3_normalize" -> v3_normalize(m, c.dst, c.a)
    [] c.op = "v3_scale" -> v3_scale(m, c.dst, c.s)
    [] c.op = "v3_dot_product" -> v3_dot_product(m, c.a, c.b)
    [] c.op = "v3_length" -> v3_length(m, c.a)
    [] c.op = "v3_angle_quick" -> v3_angle_quick(m, c.a, c.b)
    [] c.op = "v3_angle" -> v3_angle(m, c.a, c.b)
    [] c.op = "v3_equals" -> v3_equals(m, c.a, c.b, c.s)

\* the memory before the call, with every buffer that is no argument of the
\* call holding other values
Elsewhere ==
  [p \in Bufs |-> IF p \in {call.dst, call.a, call.b} THEN pre[p]
                  ELSE <<NAN, INF, F(1)>>]

\* C9: a call changes no buffer but its dst (v3_scale: its vector), on the
\* computing and on the fallback paths alike; the functions that return a
\* scalar or a bool change none.  What the call returns, prints and leaves in
\* its arguments is the same whatever the other buffers hold.
C9_Frame ==
  pc = "done"
  => /\ \A p \in Bufs : p # call.dst => mem[p] = pre[p]
     /\ call.op \in {"v3_dot_product", "v3_length", "v3_angle_quick",
                     "v3_angle", "v3_equals"} => mem = pre
     /\ LET r == Exec(call, Elsewhere)
        IN  /\ r.ret = ret
            /\ r.err = err
            /\ \A p \in Bufs \cap {call.dst, call.a, call.b} : r.mem[p] = mem[p]

\* a reflection about a good normal into a third buffer: dst is new, v and n
\* are as they were
C9_Witness ==
  /\ Done("v3_reflect") /\ Valid3
  /\ call.dst # call.a /\ call.dst # call.b /\ call.a # call.b
  /\ ~BadLength(pre[call.b])
  /\ pre[call.b] # <<F(1), 0, 0>> /\ pre[call.b] # <<0, F(1), 0>>
  /\ mem[call.dst] # pre[call.dst]
  /\ mem[call.a] = pre[call.a] /\ mem[call.b] = pre[call.b]

\* a required pointer of the call is NULL
Missing == call.dst = NULL \/ call.a = NULL \/ call.b = NULL

\* C10: a call with a NULL pointer writes a diagnostic to stderr, writes to
\* no buffer and returns; dot_product, length, angle_quick and angle return
\* NaN and equals returns false.
C10_MissingInput ==
  (pc = "done" /\ Missing)
  => /\ err # <<>>
     /\ mem = pre
     /\ call.op \in {"v3_dot_product", "v3_length", "v3_angle_quick", "v3_angle"}
        => isnan(ret)
     /\ call.op = "v3_equals" => ret = 0

====
